---------------------------- MODULE Spec2Model ----------------------------
(***************************************************************************)
(* The 'Dira Behanaha' apartment price calculator: the pricing function    *)
(* calculate_apartment_price and the command-line adapter main() of        *)
(* src/cli/calculate_mishtaken_price.py.                                   *)
(*                                                                         *)
(* Number representation.  The program computes in binary floating point; *)
(* the model computes the same expressions exactly, in fixed point:        *)
(*   - a price per square metre is a whole number of thousands of shekels  *)
(*     (25 is 25000);                                                      *)
(*   - a VAT rate as a fraction is a whole number of thousandths (180 is   *)
(*     0.18); the --vat-rate flag is a whole number of percent (18);       *)
(*   - a price per square metre with VAT is therefore in shekels;          *)
(*   - sizes are whole square metres, an effective area is in tenths of a  *)
(*     square metre (1350 is 135.0);                                       *)
(*   - an amount of money is in fortieths of a shekel (tenths from the     *)
(*     area, quarters from the factor 0.75), see Shekels.                  *)
(* On these grids every product and difference below is exact.             *)
(***************************************************************************)
EXTENDS Integers, Sequences, FiniteSets

VARIABLES
    caller,     \* who runs the code: "cli" (main), "example" (no arguments), "library"
    args,       \* cli: the parsed argparse namespace; library: the arguments of the call
    pc,         \* the position in the caller's code
    calls,      \* the invocations of calculate_apartment_price so far, in order
    results,    \* what each invocation returned, in the same order
    stdout,     \* what has been printed to standard output, in order
    stderr,     \* what has been printed to standard error, in order
    exit_code   \* the process's exit code once pc = "exited" (-1 before)

vars == <<caller, args, pc, calls, results, stdout, stderr, exit_code>>

(***************************** bounds **************************************)
\* Highest price per square metre drawn, in thousands of shekels.
MaxPrice == 26
\* Highest number of parking spaces drawn.
MaxParking == 2

Prices == 1..MaxPrice
ApartmentSizes == {0, 100, 125}
BalconySizes == {0, 12}
StorageSizes == {0, 6}
ParkingCounts == 0..MaxParking
AreaTypes == {"demand", "periphery"}
VatRates == {0, 180}

\* What the command line may carry: also values the validation must refuse.
CliPrices == {-1, 0, 20, 23, 25}
CliApartmentSizes == {-100, 0, 100, 125}
CliBalconySizes == {-12, 0, 12}
CliStorageSizes == {-6, 0, 6}
CliParkingCounts == {-1, 0, MaxParking}
CliVatPercents == {-1, 0, 18}

(************************ the pricing function *****************************)
\* An amount of n shekels in the model's unit of money.
Shekels(n) == n * 40

\* Step 1: pricePerMeter * (1 + vat_rate).
price_with_vat(price_per_meter, vat_rate) == price_per_meter * (1000 + vat_rate)

\* Step 2: the weighted components of the effective area.
apartment_effective(apartment_size) == apartment_size * 10
\* Variant: the balcony weighted like the storage room.
balcony_effective_AsStorage(balcony_size) == balcony_size * 4
balcony_effective(balcony_size) == balcony_size * 3
storage_effective(storage_room_size) == storage_room_size * 4
\* Variant: one square metre per parking space.
parking_effective_OnePerSpace(parking_spaces) == parking_spaces * 10
parking_effective(parking_spaces) == parking_spaces * 20

total_effective_area(apartment_size, balcony_size, storage_room_size, parking_spaces) ==
    apartment_effective(apartment_size) + balcony_effective(balcony_size)
        + storage_effective(storage_room_size) + parking_effective(parking_spaces)

\* Step 3: price with VAT (shekels) * effective area (tenths), in fortieths.
total_price(with_vat, effective_area) == 4 * (with_vat * effective_area)

\* Variant: the 25% taken for the 75% that remains.
discounted_main_price_Quarter(main_total_price) == main_total_price \div 4

\* Step 4: main_total_price * 0.75.
discounted_main_price(main_total_price) == (main_total_price * 3) \div 4

\* Variant: the difference taken the other way round.
potential_discount_Reversed(current_total_price, discounted) ==
    discounted - current_total_price

\* Step 5.
potential_discount(current_total_price, discounted) == current_total_price - discounted

\* str.lower() on the area types in play.
Lower(s) ==
    CASE s = "Periphery" -> "periphery"
      [] s = "PERIPHERY" -> "periphery"
      [] s = "Demand" -> "demand"
      [] OTHER -> s

\* Variant: the two limits exchanged.
max_discount_Swapped(area_type) ==
    IF Lower(area_type) = "periphery" THEN Shekels(500000) ELSE Shekels(600000)

\* Variant: the periphery limit forgotten.
max_discount_DemandOnly(area_type) == Shekels(500000)

\* The discount limit of the area type.
max_discount(area_type) ==
    IF Lower(area_type) = "periphery" THEN Shekels(600000) ELSE Shekels(500000)

\* Variant: the comparison reversed.
cap_applies_Below(potential, limit) == potential < limit

\* Variant: the comparison made inclusive.
cap_applies_Inclusive(potential, limit) == potential >= limit

\* Step 6: the cap condition.
cap_applies(potential, limit) == potential > limit

\* Step 6, capped branch: the price after the maximum allowed discount.
capped_price(current_total_price, limit) == current_total_price - limit

\* Variant: the higher of the two prices.
Min_AsMax(a, b) == IF a >= b THEN a ELSE b

\* Step 7: min().
Min(a, b) == IF a <= b THEN a ELSE b

\* Variant: the comparison made inclusive.
main_price_won_AtMost(final_price, main_total_price) == final_price <= main_total_price

\* The condition under which the discount is re-derived from the main price.
main_price_won(final_price, main_total_price) == final_price = main_total_price

calculate_apartment_price(in) ==
    LET main_price_with_vat == price_with_vat(in.main_price_per_meter, in.vat_rate)
        current_price_with_vat == price_with_vat(in.current_price_per_meter, in.vat_rate)
        area == total_effective_area(in.apartment_size, in.balcony_size,
                                     in.storage_room_size, in.parking_spaces)
        main_total_price == total_price(main_price_with_vat, area)
        current_total_price == total_price(current_price_with_vat, area)
        discounted == discounted_main_price(main_total_price)
        potential == potential_discount(current_total_price, discounted)
        limit == max_discount(in.area_type)
        capped == cap_applies(potential, limit)
        final_discounted_price ==
            IF capped THEN capped_price(current_total_price, limit) ELSE discounted
        final_price == Min(final_discounted_price, main_total_price)
        won == main_price_won(final_price, main_total_price)
    IN  [ final_price_including_vat |-> final_price,
          discount_amount |->
              IF won THEN current_total_price - main_total_price
              ELSE IF capped THEN limit ELSE potential,
          effective_area |-> area,
          discount_type |->
              IF won THEN "main_price_limit"
              ELSE IF capped THEN "capped" ELSE "25_percent",
          \* calculation_details, and the local the final price is the minimum of
          main_including_vat |-> main_price_with_vat,
          current_including_vat |-> current_price_with_vat,
          main_total_price |-> main_total_price,
          current_total_price |-> current_total_price,
          discounted_main_price |-> discounted,
          potential_discount |-> potential,
          max_allowed_discount |-> limit,
          final_discounted_price |-> final_discounted_price ]

\* The arguments of a call, with the defaults of the signature.
Call(main, current, apartment, balcony, storage, parking, area_type, vat) ==
    [ main_price_per_meter |-> main, current_price_per_meter |-> current,
      apartment_size |-> apartment, balcony_size |-> balcony,
      storage_room_size |-> storage, parking_spaces |-> parking,
      area_type |-> area_type, vat_rate |-> vat ]

DefaultCall(main, current, area_type) ==
    Call(main, current, 125, 12, 6, 2, area_type, 180)

LibraryCalls ==
    { Call(m, c, a, b, s, p, t, v) :
        m \in Prices, c \in Prices, a \in ApartmentSizes, b \in BalconySizes,
        s \in StorageSizes, p \in ParkingCounts, t \in AreaTypes, v \in VatRates }

(******************* the copy in the Streamlit application *****************)
\* calculate_apartment_price of calculate_mishtaken_price_streamlit_app.py,
\* translated from that file: the same steps with its own literals and labels.
st_calculate_apartment_price(in) ==
    LET main_price_with_vat == in.main_price_per_meter * (1000 + in.vat_rate)
        current_price_with_vat == in.current_price_per_meter * (1000 + in.vat_rate)
        apartment_eff == in.apartment_size * 10
        balcony_eff == in.balcony_size * 3
        storage_eff == in.storage_room_size * 4
        parking_eff == in.parking_spaces * 20
        area == apartment_eff + balcony_eff + storage_eff + parking_eff
        main_total_price == 4 * (main_price_with_vat * area)
        current_total_price == 4 * (current_price_with_vat * area)
        discounted == (main_total_price * 3) \div 4
        potential == current_total_price - discounted
        limit == IF Lower(in.area_type) = "periphery" THEN 600000 * 40 ELSE 500000 * 40
        capped == potential > limit
        final_discounted_price == IF capped THEN current_total_price - limit ELSE discounted
        final_price ==
            IF final_discounted_price <= main_total_price
              THEN final_discounted_price ELSE main_total_price
        won == final_price = main_total_price
    IN  [ final_price_including_vat |-> final_price,
          discount_amount |->
              IF won THEN current_total_price - main_total_price
              ELSE IF capped THEN limit ELSE potential,
          effective_area |-> area,
          discount_type |->
              IF won THEN "Limited by Main Price"
              ELSE IF capped THEN "Capped at Maximum" ELSE "25% Discount Applied",
          main_total_price |-> main_total_price,
          current_total_price |-> current_total_price,
          discounted_main_price |-> discounted,
          potential_discount |-> potential,
          max_allowed_discount |-> limit ]

(*********************** the command-line adapter **************************)
CliArgs ==
    [ main_price : CliPrices, current_price : CliPrices,
      apartment_size : CliApartmentSizes, balcony_size : CliBalconySizes,
      storage_size : CliStorageSizes, parking_spaces : CliParkingCounts,
      area_type : AreaTypes, vat_rate : CliVatPercents, quiet : BOOLEAN ]

prices_invalid(a) == a.main_price <= 0 \/ a.current_price <= 0
\* Variant: a size of zero let through.
apartment_size_invalid_Strict(a) == a.apartment_size < 0
apartment_size_invalid(a) == a.apartment_size <= 0
vat_rate_invalid(a) == a.vat_rate < 0

\* args.vat_rate / 100.0: percent to a fraction (held in thousandths).
vat_rate_decimal(percent) == (percent * 1000) \div 100

\* The keyword arguments main() passes.
CliCall(a) ==
    Call(a.main_price, a.current_price, a.apartment_size, a.balcony_size,
         a.storage_size, a.parking_spaces, a.area_type, vat_rate_decimal(a.vat_rate))

Exit(code) == pc' = "exited" /\ exit_code' = code

Invoke(in) ==
    /\ calls' = Append(calls, in)
    /\ results' = Append(results, calculate_apartment_price(in))

Init ==
    /\ calls = <<>>
    /\ results = <<>>
    /\ stdout = <<>>
    /\ stderr = <<>>
    /\ exit_code = -1
    /\ \/ caller = "cli" /\ args \in CliArgs /\ pc = "validate_prices"
       \/ caller = "example" /\ args = DefaultCall(25, 23, "demand") /\ pc = "example_1"
       \/ caller = "library" /\ args \in LibraryCalls /\ pc = "call"

\* main(): if args.main_price <= 0 or args.current_price <= 0.
ValidatePrices ==
    /\ pc = "validate_prices"
    /\ IF prices_invalid(args)
         THEN /\ stderr' = Append(stderr, "Error: Prices must be positive numbers")
              /\ Exit(1)
         ELSE /\ pc' = "validate_size"
              /\ UNCHANGED <<stderr, exit_code>>
    /\ UNCHANGED <<caller, args, calls, results, stdout>>

\* main(): if args.apartment_size <= 0.
ValidateApartmentSize ==
    /\ pc = "validate_size"
    /\ IF apartment_size_invalid(args)
         THEN /\ stderr' = Append(stderr, "Error: Apartment size must be positive")
              /\ Exit(1)
         ELSE /\ pc' = "validate_vat"
              /\ UNCHANGED <<stderr, exit_code>>
    /\ UNCHANGED <<caller, args, calls, results, stdout>>

\* main(): if args.vat_rate < 0.
ValidateVatRate ==
    /\ pc = "validate_vat"
    /\ IF vat_rate_invalid(args)
         THEN /\ stderr' = Append(stderr, "Error: VAT rate cannot be negative")
              /\ Exit(1)
         ELSE /\ pc' = "calculate"
              /\ UNCHANGED <<stderr, exit_code>>
    /\ UNCHANGED <<caller, args, calls, results, stdout>>

\* main(): result = calculate_apartment_price(...).
Calculate ==
    /\ pc = "calculate"
    /\ Invoke(CliCall(args))
    /\ pc' = "print"
    /\ UNCHANGED <<caller, args, stdout, stderr, exit_code>>

\* main(): the two prints of --quiet, or print_calculation_summary; then the
\* function returns and the process ends with code 0.
PrintResult ==
    /\ pc = "print"
    /\ stdout' = Append(stdout, IF args.quiet THEN "quiet" ELSE "summary")
    /\ Exit(0)
    /\ UNCHANGED <<caller, args, calls, results, stderr>>

\* No arguments: the first example and its summary.
Example1 ==
    /\ pc = "example_1"
    /\ Invoke(Call(25, 23, 125, 12, 6, 2, "demand", 180))
    /\ stdout' = Append(stdout, "summary")
    /\ pc' = "example_2"
    /\ UNCHANGED <<caller, args, stderr, exit_code>>

\* No arguments: the periphery example and its summary, then the usage lines.
Example2 ==
    /\ pc = "example_2"
    /\ Invoke(DefaultCall(25, 23, "periphery"))
    /\ stdout' = Append(stdout, "summary") \o <<"usage">>
    /\ Exit(0)
    /\ UNCHANGED <<caller, args, stderr>>

\* A caller that imports the module and calls the function once.
LibraryCall ==
    /\ pc = "call"
    /\ Invoke(args)
    /\ pc' = "returned"
    /\ UNCHANGED <<caller, args, stdout, stderr, exit_code>>

Next ==
    \/ ValidatePrices
    \/ ValidateApartmentSize
    \/ ValidateVatRate
    \/ Calculate
    \/ PrintResult
    \/ Example1
    \/ Example2
    \/ LibraryCall

Spec == Init /\ [][Next]_vars

(****************** the same function in binary floating point *************)
(* The program's numbers are IEEE 754 doubles.  A double is modelled as     *)
(* [neg, m, e], standing for (-1)^neg * m * 2^e, where m is zero or has     *)
(* exactly Precision bits.  m is a natural number held as its digits in     *)
(* base LimbBase, least significant first, without leading zeros.  Every    *)
(* operation is the exact one followed by rounding to nearest, ties to      *)
(* even.  The inputs drawn keep every value a normal double: overflow and   *)
(* subnormals do not arise and are not modelled.  Here prices are whole     *)
(* shekels and sizes whole square metres, as Python ints.                   *)
LimbBits == 7 + 7
LimbBase == 2 ^ LimbBits
Precision == 52 + 1

RECURSIVE Strip(_)
Strip(a) ==
    IF Len(a) = 0 THEN a
    ELSE IF a[Len(a)] = 0 THEN Strip(SubSeq(a, 1, Len(a) - 1)) ELSE a

Limb(a, i) == IF i >= 1 /\ i <= Len(a) THEN a[i] ELSE 0

RECURSIVE CarryFrom(_, _, _)
CarryFrom(a, i, c) ==
    IF i > Len(a)
      THEN IF c = 0 THEN <<>> ELSE <<c % LimbBase>> \o CarryFrom(a, i, c \div LimbBase)
      ELSE <<(a[i] + c) % LimbBase>> \o CarryFrom(a, i + 1, (a[i] + c) \div LimbBase)

BigNorm(a) == Strip(CarryFrom(a, 1, 0))

BigFromNat(n) == BigNorm(<<n>>)

BigAdd(a, b) ==
    BigNorm([i \in 1..(IF Len(a) >= Len(b) THEN Len(a) ELSE Len(b)) |->
                 Limb(a, i) + Limb(b, i)])

RECURSIVE SubFrom(_, _, _, _)
SubFrom(a, b, i, borrow) ==
    IF i > Len(a) THEN <<>>
    ELSE LET t == a[i] - Limb(b, i) - borrow
         IN  IF t < 0 THEN <<t + LimbBase>> \o SubFrom(a, b, i + 1, 1)
             ELSE <<t>> \o SubFrom(a, b, i + 1, 0)

\* a - b for a >= b.
BigSub(a, b) == Strip(SubFrom(a, b, 1, 0))

RECURSIVE CmpFrom(_, _, _)
CmpFrom(a, b, i) ==
    IF i = 0 THEN 0
    ELSE IF a[i] > b[i] THEN 1
    ELSE IF a[i] < b[i] THEN -1
    ELSE CmpFrom(a, b, i - 1)

\* -1, 0 or 1 as a < b, a = b or a > b.
BigCmp(a, b) ==
    IF Len(a) > Len(b) THEN 1
    ELSE IF Len(a) < Len(b) THEN -1
    ELSE CmpFrom(a, b, Len(a))

RECURSIVE ConvSum(_, _, _, _)
ConvSum(a, b, k, i) ==
    IF i > Len(a) THEN 0 ELSE a[i] * Limb(b, k + 1 - i) + ConvSum(a, b, k, i + 1)

BigMul(a, b) ==
    IF Len(a) = 0 \/ Len(b) = 0 THEN <<>>
    ELSE BigNorm([k \in 1..(Len(a) + Len(b) - 1) |-> ConvSum(a, b, k, 1)])

ShiftLeft(a, n) ==
    IF Len(a) = 0 THEN <<>>
    ELSE [i \in 1..(n \div LimbBits) |-> 0]
             \o BigNorm([i \in 1..Len(a) |-> a[i] * 2 ^ (n % LimbBits)])

ShiftRight(a, n) ==
    LET d == n \div LimbBits
        r == n % LimbBits
        w == Len(a) - d
    IN  IF w <= 0 THEN <<>>
        ELSE Strip([i \in 1..w |->
                 (a[i + d] \div 2 ^ r) + (Limb(a, i + d + 1) % 2 ^ r) * 2 ^ (LimbBits - r)])

RECURSIVE SmallBitLen(_)
SmallBitLen(n) == IF n = 0 THEN 0 ELSE 1 + SmallBitLen(n \div 2)

BitLen(a) == IF Len(a) = 0 THEN 0 ELSE (Len(a) - 1) * LimbBits + SmallBitLen(a[Len(a)])

IsOdd(a) == Len(a) > 0 /\ a[1] % 2 = 1

FZero == [neg |-> FALSE, m |-> <<>>, e |-> 0]

\* Rounding, last step: a carry out of the top bit halves the significand.
Renormalise(neg, q, e) ==
    IF BitLen(q) > Precision
      THEN [neg |-> neg, m |-> ShiftRight(q, 1), e |-> e + 1]
      ELSE [neg |-> neg, m |-> q, e |-> e]

\* Rounding of n = q * 2^sh + rem, given c = the comparison of rem with half
\* a unit of q: up when above half, or at half with q odd.
RoundQuotient(neg, q, e, c) ==
    Renormalise(neg, IF c > 0 \/ (c = 0 /\ IsOdd(q)) THEN BigAdd(q, <<1>>) ELSE q, e)

\* Rounding of n, which has sh bits too many and q as its leading bits.
RoundShifted(neg, n, e, sh, q) ==
    RoundQuotient(neg, q, e + sh,
                  BigCmp(BigSub(n, ShiftLeft(q, sh)), ShiftLeft(<<1>>, sh - 1)))

\* Rounding of n, which has len bits.
RoundOfLength(neg, n, e, len) ==
    IF len = 0 THEN FZero
    ELSE IF len <= Precision
      THEN [neg |-> neg, m |-> ShiftLeft(n, Precision - len), e |-> e - (Precision - len)]
    ELSE RoundShifted(neg, n, e, len - Precision, ShiftRight(n, len - Precision))

\* The double nearest to (-1)^neg * n * 2^e, ties to even.
Round(neg, n, e) == RoundOfLength(neg, n, e, BitLen(n))

\* An int converted to a double (exact below 2^53).
FromInt(n) == IF n < 0 THEN Round(TRUE, BigFromNat(-n), 0) ELSE Round(FALSE, BigFromNat(n), 0)

FNeg(x) == IF Len(x.m) = 0 THEN x ELSE [x EXCEPT !.neg = ~x.neg]

FMul(x, y) == Round(x.neg # y.neg, BigMul(x.m, y.m), x.e + y.e)

\* The sum of two doubles of opposite signs with aligned significands xm, ym,
\* given c = the comparison of xm with ym.
FAddOpposite(xneg, yneg, xm, ym, emin, c) ==
    IF c = 0 THEN FZero
    ELSE IF c > 0 THEN Round(xneg, BigSub(xm, ym), emin)
    ELSE Round(yneg, BigSub(ym, xm), emin)

\* The sum of two doubles with significands xm, ym aligned at exponent emin.
FAddAligned(xneg, yneg, xm, ym, emin) ==
    IF xneg = yneg THEN Round(xneg, BigAdd(xm, ym), emin)
    ELSE FAddOpposite(xneg, yneg, xm, ym, emin, BigCmp(xm, ym))

FAddAt(x, y, emin) ==
    FAddAligned(x.neg, y.neg, ShiftLeft(x.m, x.e - emin), ShiftLeft(y.m, y.e - emin), emin)

FAdd(x, y) ==
    IF Len(x.m) = 0 THEN y
    ELSE IF Len(y.m) = 0 THEN x
    ELSE FAddAt(x, y, IF x.e <= y.e THEN x.e ELSE y.e)

FSub(x, y) == FAdd(x, FNeg(y))

FIsPositive(d) == Len(d.m) > 0 /\ ~d.neg

\* x > y: the difference is positive (a difference of doubles rounds to zero
\* only when it is zero).
FGreater(x, y) == FIsPositive(FSub(x, y))

\* x == y: both are in canonical form.
FEqual(x, y) == x = y

\* The literals of the source and the VAT rates drawn, as doubles.
F_0_3 == [neg |-> FALSE, m |-> <<13107, 3276, 13107, 1228>>, e |-> -54]
F_0_4 == [neg |-> FALSE, m |-> <<6554, 9830, 6553, 1638>>, e |-> -54]
F_0_75 == [neg |-> FALSE, m |-> <<0, 0, 0, 1536>>, e |-> -53]
F_0_18 == [neg |-> FALSE, m |-> <<5898, 655, 9175, 1474>>, e |-> -55]
F_0_17 == [neg |-> FALSE, m |-> <<13763, 12451, 10485, 1392>>, e |-> -55]

\* Variant: the maximum allowed discount of a demand area, whatever the limit.
fl_capped_price_DemandLimit(current_total_price, limit) ==
    FSub(current_total_price, FromInt(500000))

\* current_total_price - max_discount.
fl_capped_price(current_total_price, limit) == FSub(current_total_price, limit)

\* current_total_price - discounted_main_price, and current_total_price -
\* main_total_price.
fl_difference(current_total_price, price) == FSub(current_total_price, price)

\* min(a, b) of Python: b when b < a, else a.
fl_min(a, b) == IF FGreater(a, b) THEN b ELSE a

\* The steps of calculate_apartment_price, each handing the locals computed
\* so far to the next: v holds the arguments (v.in) and the locals by name.
\* Step 7 for the final price, then the override and the returned dict.
fl_return(v, final_price) ==
    [ final_price_including_vat |-> final_price,
      discount_amount |->
          IF FEqual(final_price, v.main_total_price)
            THEN fl_difference(v.current_total_price, v.main_total_price)
          ELSE IF v.capped THEN v.max_discount ELSE v.potential_discount,
      effective_area |-> v.total_effective_area,
      discount_type |->
          IF FEqual(final_price, v.main_total_price) THEN "main_price_limit"
          ELSE IF v.capped THEN "capped" ELSE "25_percent",
      main_total_price |-> v.main_total_price,
      current_total_price |-> v.current_total_price,
      discounted_main_price |-> v.discounted_main_price,
      potential_discount |-> v.potential_discount,
      max_allowed_discount |-> v.max_discount,
      final_discounted_price |-> v.final_discounted_price ]

fl_step_7(v) == fl_return(v, fl_min(v.final_discounted_price, v.main_total_price))

\* Step 6: the cap.
fl_step_6_branch(v, capped) ==
    fl_step_7([ main_total_price |-> v.main_total_price,
                current_total_price |-> v.current_total_price,
                total_effective_area |-> v.total_effective_area,
                discounted_main_price |-> v.discounted_main_price,
                potential_discount |-> v.potential_discount,
                max_discount |-> v.max_discount,
                capped |-> capped,
                final_discounted_price |->
                    IF capped THEN fl_capped_price(v.current_total_price, v.max_discount)
                    ELSE v.discounted_main_price ])

fl_step_6(v) == fl_step_6_branch(v, FGreater(v.potential_discount, v.max_discount))

\* Step 5 and the limit of the area type.
fl_step_5(v) ==
    fl_step_6([ main_total_price |-> v.main_total_price,
                current_total_price |-> v.current_total_price,
                total_effective_area |-> v.total_effective_area,
                discounted_main_price |-> v.discounted_main_price,
                potential_discount |->
                    fl_difference(v.current_total_price, v.discounted_main_price),
                max_discount |->
                    FromInt(IF Lower(v.in.area_type) = "periphery"
                              THEN 600000 ELSE 500000) ])

\* Step 4.
fl_step_4(v) ==
    fl_step_5([ in |-> v.in,
                main_total_price |-> v.main_total_price,
                current_total_price |-> v.current_total_price,
                total_effective_area |-> v.total_effective_area,
                discounted_main_price |-> FMul(v.main_total_price, F_0_75) ])

\* Step 3.
fl_step_3(v) ==
    fl_step_4([ in |-> v.in,
                total_effective_area |-> v.total_effective_area,
                main_total_price |-> FMul(v.main_price_with_vat, v.total_effective_area),
                current_total_price |->
                    FMul(v.current_price_with_vat, v.total_effective_area) ])

\* Step 2.
fl_step_2(v) ==
    fl_step_3([ in |-> v.in,
                main_price_with_vat |-> v.main_price_with_vat,
                current_price_with_vat |-> v.current_price_with_vat,
                total_effective_area |->
                    FAdd(FAdd(FAdd(FMul(FromInt(v.in.apartment_size), FromInt(1)),
                                   FMul(FromInt(v.in.balcony_size), F_0_3)),
                              FMul(FromInt(v.in.storage_room_size), F_0_4)),
                         FMul(FromInt(v.in.parking_spaces), FromInt(2))) ])

\* Step 1, given 1 + vat_rate.
fl_step_1(in, one_plus_vat) ==
    fl_step_2([ in |-> in,
                main_price_with_vat |-> FMul(FromInt(in.main_price_per_meter), one_plus_vat),
                current_price_with_vat |->
                    FMul(FromInt(in.current_price_per_meter), one_plus_vat) ])

fl_calculate_apartment_price(in) == fl_step_1(in, FAdd(FromInt(1), in.vat_rate))

\* The inputs drawn for the floating-point function.
FloatMainPrices == {5500, 10000, 25000}
FloatCurrentPrices == {1000, 23000, 30000}
FloatApartmentSizes == {30, 125}
FloatBalconySizes == {7, 12}
FloatStorageSizes == {3, 6}
FloatParkingCounts == {0, 2}
FloatVatRates == {FZero, F_0_17, F_0_18}

FloatCalls ==
    { Call(m, c, a, b, s, p, t, v) :
        m \in FloatMainPrices, c \in FloatCurrentPrices, a \in FloatApartmentSizes,
        b \in FloatBalconySizes, s \in FloatStorageSizes, p \in FloatParkingCounts,
        t \in AreaTypes, v \in FloatVatRates }

FloatInit ==
    /\ calls = <<>>
    /\ results = <<>>
    /\ stdout = <<>>
    /\ stderr = <<>>
    /\ exit_code = -1
    /\ caller = "library"
    /\ args \in FloatCalls
    /\ pc = "call"

\* A caller that imports the module and calls the function once.
FloatLibraryCall ==
    /\ pc = "call"
    /\ calls' = Append(calls, args)
    /\ results' = Append(results, fl_calculate_apartment_price(args))
    /\ pc' = "returned"
    /\ UNCHANGED <<caller, args, stdout, stderr, exit_code>>

FloatNext == FloatLibraryCall

FloatSpec == FloatInit /\ [][FloatNext]_vars

(************************** the claims *************************************)
\* The invocations made so far.
Invocations == 1..Len(calls)

\* The PriceInput invariant the claims quantify over.
ValidInput(in) ==
    /\ in.main_price_per_meter > 0
    /\ in.current_price_per_meter > 0
    /\ in.apartment_size >= 0
    /\ in.balcony_size >= 0
    /\ in.storage_room_size >= 0
    /\ in.parking_spaces >= 0
    /\ in.vat_rate >= 0
    /\ in.area_type \in {"demand", "periphery"}

\* The quantities the claims name, written from the inputs alone.
EffectiveArea(in) ==
    10 * in.apartment_size + 3 * in.balcony_size + 4 * in.storage_room_size
        + 20 * in.parking_spaces
MainTotal(in) == 4 * in.main_price_per_meter * (1000 + in.vat_rate) * EffectiveArea(in)
CurrentTotal(in) ==
    4 * in.current_price_per_meter * (1000 + in.vat_rate) * EffectiveArea(in)
DiscountedMain(in) == 3 * in.main_price_per_meter * (1000 + in.vat_rate) * EffectiveArea(in)
PotentialDiscount(in) == CurrentTotal(in) - DiscountedMain(in)
DiscountLimit(in) ==
    IF in.area_type = "periphery" THEN Shekels(600000) ELSE Shekels(500000)

\* C1: for every valid input the final price returned is at most mainTotal =
\* mainPricePerMeter * (1 + vatRate) * effectiveArea.
C1_FinalPriceAtMostMainTotal ==
    \A i \in Invocations :
        ValidInput(calls[i]) =>
            results[i].final_price_including_vat <= MainTotal(calls[i])

\* C1's case: a valid input for which the discounted price exceeds the main
\* total, so that the floor decides the final price.
C1_Witness ==
    \E i \in Invocations :
        /\ ValidInput(calls[i])
        /\ results[i].final_discounted_price > MainTotal(calls[i])
        /\ results[i].final_price_including_vat = MainTotal(calls[i])

\* C2 as stated: for every valid input the discount amount returned is >= 0.
C2_DiscountNonNegative ==
    \A i \in Invocations :
        ValidInput(calls[i]) => results[i].discount_amount >= 0

\* C2 as amended: for every valid input the discount amount returned is >= 0
\* exactly when currentTotal >= 0.75 * mainTotal, and negative otherwise.
C2_DiscountNonNegativeIffAboveDiscountedMain ==
    \A i \in Invocations :
        ValidInput(calls[i]) =>
            (results[i].discount_amount >= 0
                <=> CurrentTotal(calls[i]) >= DiscountedMain(calls[i]))

\* C2's case: a valid input whose current total is below 0.75 * mainTotal and
\* whose returned discount amount is negative.
C2_Witness ==
    \E i \in Invocations :
        /\ ValidInput(calls[i])
        /\ CurrentTotal(calls[i]) < DiscountedMain(calls[i])
        /\ results[i].discount_amount < 0

C4_BelowMainTotalNotCapped ==
    \A i \in Invocations :
        (ValidInput(calls[i]) /\ CurrentTotal(calls[i]) < MainTotal(calls[i])) =>
            /\ results[i].potential_discount < 0
            /\ results[i].final_discounted_price = results[i].discounted_main_price
            /\ results[i].discount_type # "capped"

\* C4 as amended: for every valid input with currentTotal < 0.75 * mainTotal
\* the potential discount is negative, the cap step takes its else branch
\* (finalDiscounted = discountedMain) and the result is not CappedAtMax.
C4_BelowDiscountedMainNotCapped ==
    \A i \in Invocations :
        (ValidInput(calls[i]) /\ CurrentTotal(calls[i]) < DiscountedMain(calls[i])) =>
            /\ results[i].potential_discount < 0
            /\ results[i].final_discounted_price = DiscountedMain(calls[i])
            /\ results[i].discount_type # "capped"

\* C4's case: a valid input with currentTotal < 0.75 * mainTotal was priced.
C4_Witness ==
    \E i \in Invocations :
        /\ ValidInput(calls[i])
        /\ CurrentTotal(calls[i]) < DiscountedMain(calls[i])
        /\ results[i].discount_type = "25_percent"

\* C5: for every valid input whose potential discount equals the limit
\* exactly, the type reported is 25_percent, not capped, the final price is
\* discountedMain and the discount amount is the potential discount.
C5_BoundaryTakesPercentDiscount ==
    \A i \in Invocations :
        (ValidInput(calls[i]) /\ PotentialDiscount(calls[i]) = DiscountLimit(calls[i])) =>
            /\ results[i].discount_type = "25_percent"
            /\ results[i].final_price_including_vat = DiscountedMain(calls[i])
            /\ results[i].discount_amount = PotentialDiscount(calls[i])

\* C5's case: a periphery input whose potential discount is exactly 600,000
\* was priced.
C5_Witness ==
    \E i \in Invocations :
        /\ ValidInput(calls[i])
        /\ PotentialDiscount(calls[i]) = DiscountLimit(calls[i])
        /\ calls[i].area_type = "periphery"
        /\ results[i].discount_amount = Shekels(600000)

\* C6: for every valid input the effective area returned is apartmentSize +
\* 0.3 * balconySize + 0.4 * storageSize + 2 * parkingSpaces (in tenths),
\* whatever the prices, the VAT rate and the area type.
C6_EffectiveAreaFormula ==
    \A i \in Invocations :
        ValidInput(calls[i]) => results[i].effective_area = EffectiveArea(calls[i])

\* C6's case: an input with every component present was priced.
C6_Witness ==
    \E i \in Invocations :
        /\ ValidInput(calls[i])
        /\ calls[i].apartment_size > 0 /\ calls[i].balcony_size > 0
        /\ calls[i].storage_room_size > 0 /\ calls[i].parking_spaces > 0
        /\ results[i].effective_area = 1350

Scenario1 == Call(25, 23, 125, 12, 6, 2, "demand", 180)
Scenario2 == Call(25, 23, 125, 12, 6, 2, "periphery", 180)

\* C7: Scenario 1 (main 25000, current 23000, 125/12/6 sqm, 2 parking spaces,
\* demand, VAT 0.18) yields effective area 135, mainTotal 3,982,500,
\* currentTotal 3,663,900, potential discount 677,025, type capped, discount
\* amount 500,000 and final price 3,163,900.
C7_Scenario1 ==
    \A i \in Invocations :
        calls[i] = Scenario1 =>
            /\ results[i].effective_area = 1350
            /\ results[i].main_total_price = Shekels(3982500)
            /\ results[i].current_total_price = Shekels(3663900)
            /\ results[i].potential_discount = Shekels(677025)
            /\ results[i].discount_type = "capped"
            /\ results[i].discount_amount = Shekels(500000)
            /\ results[i].final_price_including_vat = Shekels(3163900)

\* C7's case: the program's own first example has run.
C7_Witness ==
    /\ caller = "example"
    /\ Len(calls) >= 1
    /\ calls[1] = Scenario1
    /\ results[1].final_price_including_vat = Shekels(3163900)

\* C8: Scenario 2 (Scenario 1 in a periphery area) has the limit 600,000 and
\* yields type capped, discount amount 600,000 and final price 3,063,900, with
\* effective area, mainTotal, currentTotal and potential discount as in
\* Scenario 1.
C8_Scenario2 ==
    \A i \in Invocations :
        calls[i] = Scenario2 =>
            /\ results[i].max_allowed_discount = Shekels(600000)
            /\ results[i].discount_type = "capped"
            /\ results[i].discount_amount = Shekels(600000)
            /\ results[i].final_price_including_vat = Shekels(3063900)
            /\ results[i].effective_area = 1350
            /\ results[i].main_total_price = Shekels(3982500)
            /\ results[i].current_total_price = Shekels(3663900)
            /\ results[i].potential_discount = Shekels(677025)

\* C8's case: the program's own periphery example has run after the first.
C8_Witness ==
    /\ caller = "example"
    /\ Len(calls) = 2
    /\ calls[2] = Scenario2
    /\ results[2].effective_area = results[1].effective_area
    /\ results[2].discount_amount = Shekels(600000)

\* The command lines C9 is about.
C9_Refused(a) ==
    a.main_price <= 0 \/ a.current_price <= 0 \/ a.apartment_size <= 0 \/ a.vat_rate < 0

\* C9: in main(), whenever --main-price <= 0, --current-price <= 0,
\* --apartment-size <= 0 or --vat-rate < 0, calculate_apartment_price is never
\* invoked, nothing is printed to standard output, the run never gets past the
\* validation, and it ends with exit code 1.
C9_InvalidArgsExitWithoutResult ==
    (caller = "cli" /\ C9_Refused(args)) =>
        /\ calls = <<>>
        /\ results = <<>>
        /\ stdout = <<>>
        /\ pc \in {"validate_prices", "validate_size", "validate_vat", "exited"}
        /\ pc = "exited" => (exit_code = 1 /\ Len(stderr) = 1)
        /\ pc # "exited" => (exit_code = -1 /\ ENABLED Next)

\* C9's case: a command line refused by the last check (a negative VAT rate,
\* everything else in order) has ended.
C9_Witness ==
    /\ caller = "cli"
    /\ args.main_price > 0 /\ args.current_price > 0 /\ args.apartment_size > 0
    /\ args.vat_rate < 0
    /\ pc = "exited"
    /\ exit_code = 1

\* C10 as stated: every invocation made by main() passes prices > 0 and sizes
\* (apartment, balcony, storage) and a parking-space count >= 0.
C10_CliPassesValidInput ==
    caller = "cli" =>
        \A i \in Invocations :
            /\ calls[i].main_price_per_meter > 0
            /\ calls[i].current_price_per_meter > 0
            /\ calls[i].apartment_size >= 0
            /\ calls[i].balcony_size >= 0
            /\ calls[i].storage_room_size >= 0
            /\ calls[i].parking_spaces >= 0

\* The Streamlit label of each discount type of the command-line file.
StreamlitLabel(discount_type) ==
    CASE discount_type = "capped" -> "Capped at Maximum"
      [] discount_type = "25_percent" -> "25% Discount Applied"
      [] discount_type = "main_price_limit" -> "Limited by Main Price"

\* C11: the copy of calculate_apartment_price in the command-line file and the
\* copy in the Streamlit file return, for every input, equal final price,
\* discount amount and effective area, and discount types that correspond
\* (capped / Capped at Maximum, 25_percent / 25% Discount Applied,
\* main_price_limit / Limited by Main Price).
C11_CopiesAgree ==
    \A i \in Invocations :
        LET st == st_calculate_apartment_price(calls[i])
        IN  /\ st.final_price_including_vat = results[i].final_price_including_vat
            /\ st.discount_amount = results[i].discount_amount
            /\ st.effective_area = results[i].effective_area
            /\ st.discount_type = StreamlitLabel(results[i].discount_type)

\* C11's case: an input with parking spaces whose price is limited by the
\* main price has been priced by both copies, with the same final price.
C11_Witness ==
    \E i \in Invocations :
        /\ calls[i].parking_spaces > 0
        /\ results[i].discount_type = "main_price_limit"
        /\ results[i].final_price_including_vat > 0
        /\ st_calculate_apartment_price(calls[i]).discount_type = "Limited by Main Price"
        /\ st_calculate_apartment_price(calls[i]).final_price_including_vat
               = results[i].final_price_including_vat

\* The condition C13 gives for a LimitedByMainPrice result.
C13_Limited(in) ==
    /\ PotentialDiscount(in) > DiscountLimit(in)
    /\ CurrentTotal(in) - DiscountLimit(in) >= MainTotal(in)

\* C13: for every valid input with mainTotal > 0, in either copy, the type is
\* LimitedByMainPrice exactly when potentialDiscount > maxDiscount and
\* currentTotal - maxDiscount >= mainTotal; then finalPrice = mainTotal and
\* discountAmount = currentTotal - mainTotal.  A result of the 25% branch
\* (potentialDiscount <= maxDiscount) is never typed LimitedByMainPrice.
C13_LimitedByMainPriceExactlyWhenCapReachesMain ==
    \A i \in Invocations :
        (ValidInput(calls[i]) /\ MainTotal(calls[i]) > 0) =>
            LET in == calls[i]
                st == st_calculate_apartment_price(in)
            IN  /\ results[i].discount_type = "main_price_limit" <=> C13_Limited(in)
                /\ st.discount_type = "Limited by Main Price" <=> C13_Limited(in)
                /\ C13_Limited(in) =>
                       /\ results[i].final_price_including_vat = MainTotal(in)
                       /\ results[i].discount_amount = CurrentTotal(in) - MainTotal(in)
                       /\ st.final_price_including_vat = MainTotal(in)
                       /\ st.discount_amount = CurrentTotal(in) - MainTotal(in)
                /\ PotentialDiscount(in) <= DiscountLimit(in) =>
                       /\ results[i].discount_type = "25_percent"
                       /\ st.discount_type = "25% Discount Applied"

\* C13's case: a valid input with mainTotal > 0 whose capped price is above
\* the main total, typed LimitedByMainPrice with a discount above the limit.
C13_Witness ==
    \E i \in Invocations :
        /\ ValidInput(calls[i])
        /\ MainTotal(calls[i]) > 0
        /\ C13_Limited(calls[i])
        /\ CurrentTotal(calls[i]) - DiscountLimit(calls[i]) > MainTotal(calls[i])
        /\ results[i].discount_type = "main_price_limit"
        /\ results[i].discount_amount > DiscountLimit(calls[i])

\* currentTotal as C14 writes it, currentPricePerMeter * (1 + vatRate) *
\* effectiveArea, evaluated in doubles on the effective area returned.
C14_CurrentTotal(in, effective_area) ==
    FMul(FMul(FromInt(in.current_price_per_meter), FAdd(FromInt(1), in.vat_rate)),
         effective_area)

\* C14 as stated: for every input and whichever discount type is reported,
\* finalPrice + discountAmount = currentTotal.
C14_FinalPlusDiscountIsCurrentTotal ==
    \A i \in Invocations :
        FAdd(results[i].final_price_including_vat, results[i].discount_amount)
            = C14_CurrentTotal(calls[i], results[i].effective_area)

\* C14 as amended: for every input, the returned values are tied to
\* currentTotal by the one floating-point subtraction the code performs:
\* finalPrice = currentTotal - discountAmount (rounded) for a capped result,
\* discountAmount = currentTotal - finalPrice (rounded) for a 25_percent or a
\* main_price_limit result.
C14_DifferenceRounded ==
    \A i \in Invocations :
        LET ct == C14_CurrentTotal(calls[i], results[i].effective_area)
        IN  IF results[i].discount_type = "capped"
              THEN results[i].final_price_including_vat
                       = FSub(ct, results[i].discount_amount)
              ELSE results[i].discount_amount
                       = FSub(ct, results[i].final_price_including_vat)

\* C14's case: a 25_percent result whose discount is the rounded difference
\* currentTotal - finalPrice and whose sum with the final price is not
\* currentTotal.
C14_Witness ==
    \E i \in Invocations :
        LET ct == C14_CurrentTotal(calls[i], results[i].effective_area)
        IN  /\ results[i].discount_type = "25_percent"
            /\ results[i].discount_amount = FSub(ct, results[i].final_price_including_vat)
            /\ FAdd(results[i].final_price_including_vat, results[i].discount_amount) # ct

\* The same identity in the exact arithmetic of Spec, where it holds.
C14_ExactIdentity ==
    \A i \in Invocations :
        results[i].final_price_including_vat + results[i].discount_amount
            = CurrentTotal(calls[i])

=============================================================================
